------------------------------ MODULE Spec2Model ------------------------------
(***************************************************************************)
(* Model of src/ai_agent.py: the source adapters, the chunker              *)
(* (textwrap.wrap), the per-chunk summarization loop, the three            *)
(* repurposing calls and the output file.                                  *)
(*                                                                         *)
(* A text is a sequence of one-character strings.                          *)
(***************************************************************************)
EXTENDS Integers, Sequences, FiniteSets, TLC

(***************************************************************************)
(* Bounds of the model.                                                    *)
(***************************************************************************)
\* longest text handed to the chunker in SpecWrap
MaxLen == 5
\* the small widths tried besides the width the code passes
MaxWidth == 5
\* most paragraphs, captions or pages a source yields
MaxParts == 2
\* longest text file read by the pipeline
MaxFileLen == 3
\* the width ai_agent passes to textwrap.wrap
DefaultWidth == 2000

(***************************************************************************)
(* Characters.                                                             *)
(***************************************************************************)
Letters == {"a", "b"}
\* the characters of string.whitespace that occur in the model's texts
Whitespace == {" ", "\n"}
Alphabet == Letters \cup Whitespace \cup {"-"}
\* the characters of the longer texts
PlainAlphabet == {"a", " ", "-"}

Widths == (1..MaxWidth) \cup {DefaultWidth}

RECURSIVE Concat(_)
\* "".join(parts)
Concat(parts) ==
    IF parts = <<>> THEN <<>> ELSE Head(parts) \o Concat(Tail(parts))

RECURSIVE JoinWith(_, _)
\* sep.join(parts)
JoinWith(parts, sep) ==
    IF parts = <<>> THEN <<>>
    ELSE IF Len(parts) = 1 THEN parts[1]
    ELSE parts[1] \o sep \o JoinWith(Tail(parts), sep)

(***************************************************************************)
(* textwrap.wrap(text, width) with the defaults of TextWrapper:            *)
(* expand_tabs, replace_whitespace, drop_whitespace, break_long_words,     *)
(* break_on_hyphens all True, no indents, no max_lines.                    *)
(***************************************************************************)
\* _munge_whitespace that leaves a newline as it is
MungeSpacesOnly(text) == text

\* TextWrapper._munge_whitespace: every whitespace character becomes a space
MungeWhitespace(text) ==
    [i \in 1..Len(text) |-> IF text[i] \in Whitespace THEN " " ELSE text[i]]

IsLetter(s, i) == i >= 1 /\ i <= Len(s) /\ s[i] \in Letters
IsHyphen(s, i) == i >= 1 /\ i <= Len(s) /\ s[i] = "-"
IsSpace(s, i) == i >= 1 /\ i <= Len(s) /\ s[i] = " "

\* first position >= i of s that does not hold character c (Len(s)+1 if none)
RECURSIVE RunEnd(_, _, _)
RunEnd(s, i, c) ==
    IF i <= Len(s) /\ s[i] = c THEN RunEnd(s, i + 1, c) ELSE i

\* wordsep_re, "em-dash between words": (?<=wp) -{2,} (?=\w) matches at e
EmDashAt(s, e) ==
    /\ IsLetter(s, e - 1)
    /\ IsHyphen(s, e)
    /\ IsHyphen(s, e + 1)
    /\ IsLetter(s, RunEnd(s, e, "-"))

\* wordsep_re, "hyphenated word": the hyphen at e ends a chunk
HyphenBreakAt(s, e) ==
    /\ IsHyphen(s, e)
    /\ \/ IsLetter(s, e - 2) /\ IsLetter(s, e - 1)
       \/ IsLetter(s, e - 3) /\ IsHyphen(s, e - 2) /\ IsLetter(s, e - 1)
    /\ IsLetter(s, e + 1)
    /\ \/ IsLetter(s, e + 2)
       \/ IsHyphen(s, e + 2) /\ IsLetter(s, e + 3)

\* wordsep_re, third alternative: the lazy [^ws]+? has consumed p..e-1;
\* the position after the chunk that starts at p
RECURSIVE WordEnd(_, _, _)
WordEnd(s, p, e) ==
    IF HyphenBreakAt(s, e) THEN e + 1
    ELSE IF e > Len(s) \/ IsSpace(s, e) THEN e
    ELSE IF EmDashAt(s, e) THEN e
    ELSE WordEnd(s, p, e + 1)

\* the position after the wordsep_re match that starts at p
ChunkEnd(s, p) ==
    IF IsSpace(s, p) THEN RunEnd(s, p, " ")
    ELSE IF EmDashAt(s, p) THEN RunEnd(s, p, "-")
    ELSE WordEnd(s, p, p + 1)

\* TextWrapper._split: the matches of wordsep_re, in order
RECURSIVE SplitFrom(_, _)
SplitFrom(s, p) ==
    IF p > Len(s) THEN <<>>
    ELSE LET e == ChunkEnd(s, p)
         IN <<SubSeq(s, p, e - 1)>> \o SplitFrom(s, e)

Split(s) == SplitFrom(s, 1)

\* chunk.strip() == ''
IsBlank(chunk) == \A i \in 1..Len(chunk) : chunk[i] = " "

\* FillLine that lets a line run one character over the width
RECURSIVE FillLineOverfull(_, _, _)
FillLineOverfull(chunks, cur_line, width) ==
    IF chunks # <<>> /\ Len(Concat(cur_line)) + Len(Head(chunks)) <= width + 1
    THEN FillLineOverfull(Tail(chunks), Append(cur_line, Head(chunks)), width)
    ELSE <<chunks, cur_line>>

\* the inner loop of _wrap_chunks: pop chunks onto the line while they fit;
\* the result is <<chunks left, cur_line>>
RECURSIVE FillLine(_, _, _)
FillLine(chunks, cur_line, width) ==
    IF chunks # <<>> /\ Len(Concat(cur_line)) + Len(Head(chunks)) <= width
    THEN FillLine(Tail(chunks), Append(cur_line, Head(chunks)), width)
    ELSE <<chunks, cur_line>>

\* TextWrapper._handle_long_word with break_long_words and break_on_hyphens:
\* the number of characters of chunk put on the current line
LongWordCut(chunk, space_left) ==
    LET hy == {i \in 1..space_left : chunk[i] = "-"}
        h == IF hy = {} THEN 0 ELSE CHOOSE i \in hy : \A j \in hy : j <= i
    IN IF Len(chunk) > space_left
          /\ h > 1 /\ \E j \in 1..(h - 1) : chunk[j] # "-"
       THEN h ELSE space_left

RECURSIVE WrapChunks(_, _, _)

\* WrapChunks that drops the first chunk of a later line, blank or not
WrapChunksDropsFirst(chunks, width, lines) ==
    IF chunks = <<>> THEN lines
    ELSE
      LET c0 == IF lines # <<>> THEN Tail(chunks) ELSE chunks
          f == FillLine(c0, <<>>, width)
          c1 == f[1]
          l1 == f[2]
          long == c1 # <<>> /\ Len(Head(c1)) > width
          cut == IF long
                 THEN LongWordCut(Head(c1), width - Len(Concat(l1))) ELSE 0
          c2 == IF long
                THEN <<SubSeq(Head(c1), cut + 1, Len(Head(c1)))>> \o Tail(c1)
                ELSE c1
          l2 == IF long THEN Append(l1, SubSeq(Head(c1), 1, cut)) ELSE l1
          l3 == IF l2 # <<>> /\ IsBlank(l2[Len(l2)])
                THEN SubSeq(l2, 1, Len(l2) - 1) ELSE l2
      IN WrapChunks(c2, width,
                    IF l3 # <<>> THEN Append(lines, Concat(l3)) ELSE lines)

\* one pass of the outer loop of _wrap_chunks; lines are the lines so far
WrapChunks(chunks, width, lines) ==
    IF chunks = <<>> THEN lines
    ELSE
      LET c0 == IF IsBlank(Head(chunks)) /\ lines # <<>>
                THEN Tail(chunks) ELSE chunks
          f == FillLine(c0, <<>>, width)
          c1 == f[1]
          l1 == f[2]
          long == c1 # <<>> /\ Len(Head(c1)) > width
          cut == IF long
                 THEN LongWordCut(Head(c1), width - Len(Concat(l1))) ELSE 0
          c2 == IF long
                THEN <<SubSeq(Head(c1), cut + 1, Len(Head(c1)))>> \o Tail(c1)
                ELSE c1
          l2 == IF long THEN Append(l1, SubSeq(Head(c1), 1, cut)) ELSE l1
          l3 == IF l2 # <<>> /\ IsBlank(l2[Len(l2)])
                THEN SubSeq(l2, 1, Len(l2) - 1) ELSE l2
      IN WrapChunks(c2, width,
                    IF l3 # <<>> THEN Append(lines, Concat(l3)) ELSE lines)

\* textwrap.wrap(text, width=width)
Wrap(text, width) == WrapChunks(Split(MungeWhitespace(text)), width, <<>>)

(***************************************************************************)
(* What the external operations hand back.                                 *)
(***************************************************************************)
\* text of one paragraph, caption or page
Parts == {<<>>, <<"a">>, <<"b">>}
PartLists == UNION {[1..n -> Parts] : n \in 0..MaxParts}
FileTexts == UNION {[1..n -> PlainAlphabet] : n \in 0..MaxFileLen}
\* the texts given to the chunker on its own: every text up to MaxLen, and the
\* texts over PlainAlphabet of one and two characters more
Texts ==
    UNION {[1..n -> Alphabet] : n \in 0..MaxLen}
        \cup UNION {[1..n -> PlainAlphabet] : n \in (MaxLen + 1)..(MaxLen + 2)}

\* outcome of a fetch that yields a list of texts (paragraphs, captions,
\* pages), or an exception (a failed response may still carry a body)
ListResults ==
    {[ok |-> TRUE, body |-> b] : b \in PartLists}
        \cup {[ok |-> FALSE, body |-> b] : b \in {<<>>, << <<"a">> >>}}
\* outcome of open + read: the file's text, or an exception
FileResults ==
    {[ok |-> TRUE, body |-> t] : t \in FileTexts}
        \cup {[ok |-> FALSE, body |-> t] : t \in {<<>>, <<"a">>}}

\* what summary_chain.invoke returns
SummaryOutputs == {<<>>, <<"s">>}
\* what linkedin_chain, tweet_chain and script_chain return
RewriteOutputs == {<<"p">>, <<"q">>}

SourceTypes == {"blog", "youtube", "textfile", "pdf", "BLOG", "rss"}
\* str.lower on the source types of the model
Lower(t) == IF t = "BLOG" THEN "blog" ELSE t

\* a Python name not bound yet
NotSet == <<"<unbound>">>

(***************************************************************************)
(* The source adapters.                                                    *)
(***************************************************************************)
\* load_blog without raise_for_status: the body of a failed response is used
load_blog_unchecked(res) == JoinWith(res.body, <<"\n">>)

load_blog(res) ==
    IF res.ok THEN JoinWith(res.body, <<"\n">>) ELSE <<>>

load_youtube_transcript(res) ==
    IF res.ok THEN JoinWith(res.body, <<" ">>) ELSE <<>>

load_pdf(res) ==
    IF res.ok THEN JoinWith(SelectSeq(res.body, LAMBDA t : t # <<>>), <<" ">>)
    ELSE <<>>

load_text_file(res) ==
    IF res.ok THEN res.body ELSE <<>>

\* "\n".join(summaries)
CombinedSummary(parts) == JoinWith(parts, <<"\n">>)

(***************************************************************************)
(* The text of the output file, one f.write at a time.  A literal of the   *)
(* code without a newline in it is one element of the sequence.            *)
(***************************************************************************)
HeaderBlock(st, sv) ==
    <<"Source Type: ", st, "\n", "Source: ", sv, "\n", "\n">>
SummarySection(t) == <<"=== Combined Summary ===", "\n">> \o t \o <<"\n", "\n">>
LinkedinSection(t) == <<"=== LinkedIn Post ===", "\n">> \o t \o <<"\n", "\n">>
TweetSection(t) == <<"=== Tweet Thread ===", "\n">> \o t \o <<"\n", "\n">>
ScriptSection(t) == <<"=== Video Script ===", "\n">> \o t

VARIABLES
    pc,               \* where ai_agent is
    source_type,      \* argument of ai_agent
    source_value,     \* argument of ai_agent
    width,            \* the width given to textwrap.wrap
    content,
    chunks,
    i,                \* enumerate(chunks, 1): index of the chunk in hand
    summaries,
    combined_summary,
    linkedin_post,
    tweet_thread,
    video_script,
    opened,           \* open(output_path, "w") has succeeded
    file,             \* what has been written to the output file
    raised,           \* an exception has left ai_agent
    src_failed,       \* history: the adapter's fetch / parse / read raised
    calls             \* history: the calls of the four chains, in order

vars == <<pc, source_type, source_value, width, content, chunks, i, summaries,
          combined_summary, linkedin_post, tweet_thread, video_script,
          opened, file, raised, src_failed, calls>>

\* the locals of ai_agent and the history, before anything has run
Locals ==
    /\ chunks = <<>>
    /\ i = 0
    /\ summaries = <<>>
    /\ combined_summary = NotSet
    /\ linkedin_post = NotSet
    /\ tweet_thread = NotSet
    /\ video_script = NotSet
    /\ opened = FALSE
    /\ file = <<>>
    /\ raised = FALSE
    /\ src_failed = FALSE
    /\ calls = <<>>

\* ai_agent(source_type, source_value) is entered.  The code passes
\* width=2000; the model also runs it at small widths, so that a text of a
\* few characters splits into several chunks.
Init ==
    /\ pc = "start"
    /\ source_type \in SourceTypes
    /\ source_value = "notes.txt"
    /\ width \in Widths
    /\ content = <<>>
    /\ Locals

\* Step A, one branch of the if / elif chain
Loaded(text, failed) ==
    /\ content' = text
    /\ src_failed' = failed
    /\ pc' = "loaded"
    /\ UNCHANGED <<source_type, source_value, width, chunks, i, summaries,
                   combined_summary, linkedin_post, tweet_thread, video_script,
                   opened, file, raised, calls>>

LoadBlog ==
    /\ pc = "start"
    /\ Lower(source_type) = "blog"
    /\ \E res \in ListResults : Loaded(load_blog(res), ~res.ok)

LoadYoutube ==
    /\ pc = "start"
    /\ Lower(source_type) = "youtube"
    /\ \E res \in ListResults : Loaded(load_youtube_transcript(res), ~res.ok)

LoadTextFile ==
    /\ pc = "start"
    /\ Lower(source_type) = "textfile"
    /\ \E res \in FileResults : Loaded(load_text_file(res), ~res.ok)

LoadPdf ==
    /\ pc = "start"
    /\ Lower(source_type) = "pdf"
    /\ \E res \in ListResults : Loaded(load_pdf(res), ~res.ok)

InvalidSourceType ==
    /\ pc = "start"
    /\ Lower(source_type) \notin {"blog", "youtube", "textfile", "pdf"}
    /\ pc' = "done"
    /\ UNCHANGED <<source_type, source_value, width, content, chunks, i,
                   summaries, combined_summary, linkedin_post, tweet_thread,
                   video_script, opened, file, raised, src_failed, calls>>

\* if not content: return
NoContent ==
    /\ pc = "loaded"
    /\ content = <<>>
    /\ pc' = "done"
    /\ UNCHANGED <<source_type, source_value, width, content, chunks, i,
                   summaries, combined_summary, linkedin_post, tweet_thread,
                   video_script, opened, file, raised, src_failed, calls>>

\* Step B: chunks = textwrap.wrap(content, width); summaries = []
SplitContent ==
    /\ pc = "loaded"
    /\ content # <<>>
    /\ chunks' = Wrap(content, width)
    /\ summaries' = <<>>
    /\ pc' = "loop"
    /\ UNCHANGED <<source_type, source_value, width, content, i,
                   combined_summary, linkedin_post, tweet_thread, video_script,
                   opened, file, raised, src_failed, calls>>

Event(chain, ev, idx, arg, out) ==
    [chain |-> chain, ev |-> ev, idx |-> idx, arg |-> arg, out |-> out]

\* the for loop takes the next chunk and enters summary_chain.invoke
SummarizeCall ==
    /\ pc = "loop"
    /\ i < Len(chunks)
    /\ i' = i + 1
    /\ calls' = Append(calls, Event("summary", "call", i + 1, chunks[i + 1], <<>>))
    /\ pc' = "summarizing"
    /\ UNCHANGED <<source_type, source_value, width, content, chunks, summaries,
                   combined_summary, linkedin_post, tweet_thread, video_script,
                   opened, file, raised, src_failed>>

\* summary_chain.invoke returns: summaries.append(summary_part)
SummarizeOk ==
    /\ pc = "summarizing"
    /\ \E out \in SummaryOutputs :
          /\ summaries' = Append(summaries, out)
          /\ calls' = Append(calls, Event("summary", "ok", i, chunks[i], out))
    /\ pc' = "loop"
    /\ UNCHANGED <<source_type, source_value, width, content, chunks, i,
                   combined_summary, linkedin_post, tweet_thread, video_script,
                   opened, file, raised, src_failed>>

\* SummarizeFail with an empty string kept in the failed chunk's place
SummarizeFailKeepsPlace ==
    /\ pc = "summarizing"
    /\ summaries' = Append(summaries, <<>>)
    /\ calls' = Append(calls, Event("summary", "fail", i, chunks[i], <<>>))
    /\ pc' = "loop"
    /\ UNCHANGED <<source_type, source_value, width, content, chunks, i,
                   combined_summary, linkedin_post, tweet_thread, video_script,
                   opened, file, raised, src_failed>>

\* SummarizeFail with the failed chunk tried again
SummarizeFailRetries ==
    /\ pc = "summarizing"
    /\ i' = i - 1
    /\ calls' = Append(calls, Event("summary", "fail", i, chunks[i], <<>>))
    /\ pc' = "loop"
    /\ UNCHANGED <<source_type, source_value, width, content, chunks,
                   summaries, combined_summary, linkedin_post, tweet_thread,
                   video_script, opened, file, raised, src_failed>>

\* summary_chain.invoke raises: except Exception, the chunk is skipped
SummarizeFail ==
    /\ pc = "summarizing"
    /\ calls' = Append(calls, Event("summary", "fail", i, chunks[i], <<>>))
    /\ pc' = "loop"
    /\ UNCHANGED <<source_type, source_value, width, content, chunks, i,
                   summaries, combined_summary, linkedin_post, tweet_thread,
                   video_script, opened, file, raised, src_failed>>

\* the loop is over: combined_summary = "\n".join(summaries)
Combine ==
    /\ pc = "loop"
    /\ i = Len(chunks)
    /\ combined_summary' = CombinedSummary(summaries)
    /\ pc' = "linkedin"
    /\ UNCHANGED <<source_type, source_value, width, content, chunks, i,
                   summaries, linkedin_post, tweet_thread, video_script,
                   opened, file, raised, src_failed, calls>>

\* Step C: linkedin_chain.invoke({"text": combined_summary})
LinkedinOk ==
    /\ pc = "linkedin"
    /\ \E out \in RewriteOutputs :
          /\ linkedin_post' = out
          /\ calls' = Append(calls,
                             Event("linkedin", "ok", 0, combined_summary, out))
    /\ pc' = "tweet"
    /\ UNCHANGED <<source_type, source_value, width, content, chunks, i,
                   summaries, combined_summary, tweet_thread, video_script,
                   opened, file, raised, src_failed>>

\* the exception of a repurposing call is not caught: it leaves ai_agent
Abort(chain) ==
    /\ calls' = Append(calls, Event(chain, "fail", 0, combined_summary, <<>>))
    /\ raised' = TRUE
    /\ pc' = "done"
    /\ UNCHANGED <<source_type, source_value, width, content, chunks, i,
                   summaries, combined_summary, linkedin_post, tweet_thread,
                   video_script, opened, file, src_failed>>

LinkedinFail ==
    /\ pc = "linkedin"
    /\ Abort("linkedin")

\* tweet_chain.invoke({"text": combined_summary})
TweetOk ==
    /\ pc = "tweet"
    /\ \E out \in RewriteOutputs :
          /\ tweet_thread' = out
          /\ calls' = Append(calls,
                             Event("tweet", "ok", 0, combined_summary, out))
    /\ pc' = "script"
    /\ UNCHANGED <<source_type, source_value, width, content, chunks, i,
                   summaries, combined_summary, linkedin_post, video_script,
                   opened, file, raised, src_failed>>

\* TweetFail with the exception caught and an empty thread used instead
TweetFailSwallowed ==
    /\ pc = "tweet"
    /\ tweet_thread' = <<>>
    /\ calls' = Append(calls, Event("tweet", "fail", 0, combined_summary, <<>>))
    /\ pc' = "script"
    /\ UNCHANGED <<source_type, source_value, width, content, chunks, i,
                   summaries, combined_summary, linkedin_post, video_script,
                   opened, file, raised, src_failed>>

TweetFail ==
    /\ pc = "tweet"
    /\ Abort("tweet")

\* script_chain.invoke({"text": combined_summary})
ScriptOk ==
    /\ pc = "script"
    /\ \E out \in RewriteOutputs :
          /\ video_script' = out
          /\ calls' = Append(calls,
                             Event("script", "ok", 0, combined_summary, out))
    /\ pc' = "save"
    /\ UNCHANGED <<source_type, source_value, width, content, chunks, i,
                   summaries, combined_summary, linkedin_post, tweet_thread,
                   opened, file, raised, src_failed>>

ScriptFail ==
    /\ pc = "script"
    /\ Abort("script")

\* Writes with the tweet thread written before the LinkedIn post
WritesSwapped ==
    << HeaderBlock(source_type, source_value),
       SummarySection(combined_summary),
       TweetSection(tweet_thread),
       LinkedinSection(linkedin_post),
       ScriptSection(video_script) >>

\* the five f.write calls of Step D, in order
Writes ==
    << HeaderBlock(source_type, source_value),
       SummarySection(combined_summary),
       LinkedinSection(linkedin_post),
       TweetSection(tweet_thread),
       ScriptSection(video_script) >>

\* Step D: open the output file and write it
SaveOutputs ==
    /\ pc = "save"
    /\ opened' = TRUE
    /\ file' = Concat(Writes)
    /\ pc' = "done"
    /\ UNCHANGED <<source_type, source_value, width, content, chunks, i,
                   summaries, combined_summary, linkedin_post, tweet_thread,
                   video_script, raised, src_failed, calls>>

\* open(output_path, "w") raises
OpenFails ==
    /\ pc = "save"
    /\ raised' = TRUE
    /\ pc' = "done"
    /\ UNCHANGED <<source_type, source_value, width, content, chunks, i,
                   summaries, combined_summary, linkedin_post, tweet_thread,
                   video_script, opened, file, src_failed, calls>>

\* an f.write raises after n of the five have been done
WriteFails ==
    /\ pc = "save"
    /\ \E n \in 0..4 :
          file' = Concat(SubSeq(Writes, 1, n))
    /\ opened' = TRUE
    /\ raised' = TRUE
    /\ pc' = "done"
    /\ UNCHANGED <<source_type, source_value, width, content, chunks, i,
                   summaries, combined_summary, linkedin_post, tweet_thread,
                   video_script, src_failed, calls>>

Next ==
    \/ LoadBlog
    \/ LoadYoutube
    \/ LoadTextFile
    \/ LoadPdf
    \/ InvalidSourceType
    \/ NoContent
    \/ SplitContent
    \/ SummarizeCall
    \/ SummarizeOk
    \/ SummarizeFail
    \/ Combine
    \/ LinkedinOk
    \/ LinkedinFail
    \/ TweetOk
    \/ TweetFail
    \/ ScriptOk
    \/ ScriptFail
    \/ SaveOutputs
    \/ OpenFails
    \/ WriteFails

Spec == Init /\ [][Next]_vars

(***************************************************************************)
(* The chunker on its own: ai_agent from the point where content is        *)
(* loaded, for every text up to MaxLen, through the gate and Step B.       *)
(***************************************************************************)
InitWrap ==
    /\ pc = "loaded"
    /\ source_type = "textfile"
    /\ source_value = "notes.txt"
    /\ width \in Widths
    /\ content \in Texts
    /\ Locals

NextWrap ==
    \/ NoContent
    \/ SplitContent

SpecWrap == InitWrap /\ [][NextWrap]_vars
(***************************************************************************)
(* Properties of the pipeline, checked under Spec.                         *)
(***************************************************************************)
Rewriters == {"linkedin", "tweet", "script"}

\* the summarization loop is over and the summaries have been joined
LoopDone ==
    pc \in {"linkedin", "tweet", "script", "save", "done"}
        /\ combined_summary # NotSet

\* the calls of summary_chain, in order
SummaryEvents == SelectSeq(calls, LAMBDA e : e.chain = "summary")

\* the chunks whose summarization returned
Succeeded ==
    {k \in 1..Len(chunks) :
        \E n \in 1..Len(calls) :
            calls[n].chain = "summary" /\ calls[n].ev = "ok" /\ calls[n].idx = k}

\* the chunks whose summarization raised
Failed ==
    {k \in 1..Len(chunks) :
        \E n \in 1..Len(calls) :
            calls[n].chain = "summary" /\ calls[n].ev = "fail"
                /\ calls[n].idx = k}

\* what summary_chain returned for chunk k
OutputOf(k) ==
    LET n == CHOOSE n \in 1..Len(calls) :
                 calls[n].chain = "summary" /\ calls[n].ev = "ok"
                     /\ calls[n].idx = k
    IN calls[n].out

\* the outputs of the successful chunks from chunk k on, in chunk index order
RECURSIVE SuccessOutputsFrom(_)
SuccessOutputsFrom(k) ==
    IF k > Len(chunks) THEN <<>>
    ELSE (IF k \in Succeeded THEN <<OutputOf(k)>> ELSE <<>>)
             \o SuccessOutputsFrom(k + 1)

\* the calls of the three repurposing chains
RepurposeCalls ==
    {n \in 1..Len(calls) : calls[n].chain \in Rewriters}

RepurposeFailed ==
    \E n \in RepurposeCalls : calls[n].ev = "fail"

\* chain has returned, and what it was given and what it returned
Returned(chain) ==
    \E n \in 1..Len(calls) : calls[n].chain = chain /\ calls[n].ev = "ok"
ReturnOf(chain) ==
    calls[CHOOSE n \in 1..Len(calls) :
              calls[n].chain = chain /\ calls[n].ev = "ok"]

\* C1: when the text is non-empty and the summarization of every chunk has
\* failed, the combined summary is empty and none of the three repurposing
\* calls is made.
C1_NoRepurposingWhenAllChunksFail ==
    (LoopDone /\ content # <<>> /\ chunks # <<>> /\ Succeeded = {})
        => (combined_summary = <<>> /\ RepurposeCalls = {})

\* C2: once the loop is over, the combined summary is the outputs of exactly
\* the successful chunks, in chunk index order, joined by one newline; a
\* failed chunk contributes nothing, not even a separator.
C2_SummaryJoinsSuccessfulOutputs ==
    LoopDone
        => combined_summary = JoinWith(SuccessOutputsFrom(1), <<"\n">>)

\* two chunks, the first summarized to "s", the second failed: summary "s"
C2_Witness ==
    /\ LoopDone
    /\ Len(chunks) = 2
    /\ Succeeded = {1}
    /\ Failed = {2}
    /\ OutputOf(1) = <<"s">>
    /\ combined_summary = <<"s">>

\* C3: once the loop is over, the combined summary is empty if and only if
\* every chunk failed or the text was empty, and no repurposing call is made
\* on an empty summary.
C3_SummaryEmptyIffAllFailedAndGated ==
    LoopDone
        => /\ (combined_summary = <<>>) <=> (Succeeded = {} \/ content = <<>>)
           /\ combined_summary = <<>> => RepurposeCalls = {}

\* C4: when the fetch, parse or read of the source fails, the adapter returns
\* empty text and the run ends at the empty-content gate: nothing is chunked,
\* no chain is called, no file is opened or written, no exception leaves.
C4_FailedSourceStopsAtGate ==
    src_failed
        => /\ content = <<>>
           /\ pc \in {"loaded", "done"}
           /\ ~ENABLED SplitContent
           /\ chunks = <<>>
           /\ calls = <<>>
           /\ ~opened
           /\ file = <<>>
           /\ ~raised

\* an unreachable blog URL: the run is over
C4_Witness ==
    src_failed /\ Lower(source_type) = "blog" /\ pc = "done"

\* C5: when one of the three repurposing calls fails the run is over with the
\* exception raised to the caller and no file opened or written; a file is
\* opened only once the summary and the three artifacts have been generated.
C5_RepurposingFailureWritesNothing ==
    /\ RepurposeFailed
           => raised /\ pc = "done" /\ ~opened /\ file = <<>>
    /\ (opened \/ file # <<>>)
           => /\ LoopDone
              /\ \A c \in Rewriters : Returned(c)
              /\ linkedin_post # NotSet
              /\ tweet_thread # NotSet
              /\ video_script # NotSet

\* the tweet thread fails after the LinkedIn post was generated
C5_Witness ==
    /\ pc = "done"
    /\ Returned("linkedin")
    /\ \E n \in RepurposeCalls :
          calls[n].chain = "tweet" /\ calls[n].ev = "fail"

\* C6: summary_chain is called once per chunk, one call after the other in
\* increasing chunk index order: call k is the (2k-1)th event and is given
\* chunk k, its return or failure is the (2k)th, a failure is followed by
\* the next chunk, and when the loop is over every chunk has been called.
C6_OneSequentialCallPerChunk ==
    LET ev == SummaryEvents
        last == ev[Len(ev)]
    IN /\ Len(ev) <= 2 * Len(chunks)
       /\ \A n \in 1..Len(ev) :
             IF n % 2 = 1
             THEN /\ ev[n].ev = "call"
                  /\ ev[n].idx = (n + 1) \div 2
                  /\ ev[n].arg = chunks[ev[n].idx]
             ELSE /\ ev[n].ev \in {"ok", "fail"}
                  /\ ev[n].idx = n \div 2
       /\ (Len(ev) > 0 /\ last.ev = "call")
             => pc = "summarizing" /\ i = last.idx
       /\ (Len(ev) > 0 /\ last.ev # "call" /\ last.idx < Len(chunks))
             => pc = "loop" /\ i = last.idx /\ ENABLED SummarizeCall
       /\ LoopDone => Len(ev) = 2 * Len(chunks)
       /\ pc = "done" /\ content # <<>> => LoopDone

\* three chunks, the second failed and the third was summarized after it
C6_Witness ==
    /\ LoopDone
    /\ Len(chunks) = 3
    /\ 2 \in Failed
    /\ 3 \in Succeeded

\* the run record the code writes, with the three section headers given
ExpectedRecord(h2, h3, h4) ==
    <<"Source Type: ", source_type, "\n", "Source: ", source_value, "\n", "\n">>
        \o <<"=== Combined Summary ===", "\n">> \o combined_summary
        \o <<"\n", "\n", h2, "\n">> \o ReturnOf("linkedin").out
        \o <<"\n", "\n", h3, "\n">> \o ReturnOf("tweet").out
        \o <<"\n", "\n", h4, "\n">> \o ReturnOf("script").out

\* a run that ended with its file written and no exception
Completed == pc = "done" /\ opened /\ ~raised

\* every repurposing chain was given the combined summary
DerivedFromSummary ==
    \A n \in RepurposeCalls : calls[n].arg = combined_summary

\* C10 as stated: the file of a completed run is the header block and the
\* four sections "=== Combined Summary ===", "=== Professional Post ===",
\* "=== Micro Thread ===", "=== Short Script ===", once each in that order,
\* each followed by its artifact, all derived from the same summary.
C10_RecordWithSpecHeaders ==
    Completed
        => /\ file = ExpectedRecord("=== Professional Post ===",
                                    "=== Micro Thread ===",
                                    "=== Short Script ===")
           /\ DerivedFromSummary

\* C10 amended: the same record, with the section headers the code writes:
\* "=== Combined Summary ===", "=== LinkedIn Post ===", "=== Tweet Thread ===",
\* "=== Video Script ===".
C10_RecordWithCodeHeaders ==
    Completed
        => /\ file = ExpectedRecord("=== LinkedIn Post ===",
                                    "=== Tweet Thread ===",
                                    "=== Video Script ===")
           /\ DerivedFromSummary

\* a text file's record, with a post and a thread that differ
C10_Witness ==
    /\ Completed
    /\ source_type = "textfile"
    /\ combined_summary # <<>>
    /\ linkedin_post # tweet_thread
(***************************************************************************)
(* Properties of the chunker, checked under SpecWrap.                      *)
(***************************************************************************)
\* the text with every whitespace character made a space
Normalize(t) == [n \in 1..Len(t) |-> IF t[n] \in {" ", "\n"} THEN " " ELSE t[n]]

\* the text without its whitespace
StripWS(t) == SelectSeq(t, LAMBDA c : c \notin {" ", "\n"})

AllSpaces(s, from, to) == \A q \in from..to : s[q] = " "

\* s from position p on is cs[1], cs[2], ... in this order, one after the
\* other, with nothing but spaces before, between and after them
RECURSIVE Tiles(_, _, _)
Tiles(s, cs, p) ==
    IF cs = <<>> THEN AllSpaces(s, p, Len(s))
    ELSE \E g \in 0..(Len(s) - p + 1 - Len(cs[1])) :
            /\ AllSpaces(s, p, p + g - 1)
            /\ SubSeq(s, p + g, p + g + Len(cs[1]) - 1) = cs[1]
            /\ Tiles(s, Tail(cs), p + g + Len(cs[1]))

\* where the chunks of such a tiling start, each as far left as it can
RECURSIVE Place(_, _, _)
Place(s, cs, p) ==
    IF cs = <<>> THEN <<>>
    ELSE LET ok(g) == /\ AllSpaces(s, p, p + g - 1)
                      /\ SubSeq(s, p + g, p + g + Len(cs[1]) - 1) = cs[1]
                      /\ Tiles(s, Tail(cs), p + g + Len(cs[1]))
             gs == {g \in 0..(Len(s) - p + 1 - Len(cs[1])) : ok(g)}
             g0 == CHOOSE g \in gs : \A h \in gs : g <= h
         IN <<p + g0>> \o Place(s, Tail(cs), p + g0 + Len(cs[1]))

\* Step B has run
Chunked == pc = "loop"

\* positions of the last character of chunk k and of the first of chunk k+1
EndOf(starts, k) == starts[k] + Len(chunks[k]) - 1

\* the boundary after chunk k falls at whitespace: whitespace was dropped
\* there, or a space is next to it
AtWhitespace(s, starts, k) ==
    \/ starts[k + 1] > EndOf(starts, k) + 1
    \/ s[EndOf(starts, k)] = " "
    \/ s[starts[k + 1]] = " "

\* the boundary after chunk k is next to a hyphen
AtHyphen(s, starts, k) ==
    s[EndOf(starts, k)] = "-" \/ s[starts[k + 1]] = "-"

\* the boundary after chunk k is inside a token of more than width characters
InLongToken(s, starts, k) ==
    \E a \in 1..EndOf(starts, k) : \E b \in starts[k + 1]..Len(s) :
        /\ b - a + 1 > width
        /\ \A q \in a..b : s[q] # " "

\* C7: the chunks are consecutive, non-overlapping pieces of the text in
\* their order, with only whitespace left out between them; so their
\* concatenation is the text up to whitespace, no other character lost,
\* duplicated or moved.
C7_ChunksReassembleText ==
    Chunked
        => /\ Tiles(Normalize(content), chunks, 1)
           /\ StripWS(Concat(chunks)) = StripWS(content)

\* three chunks of a text with a newline in it
C7_Witness ==
    /\ Chunked
    /\ Len(chunks) = 3
    /\ \E n \in 1..Len(content) : content[n] = "\n"
    /\ \E n \in 1..Len(content) : content[n] = "b"

\* C8 as stated: every chunk is at most width long unless it is one whole
\* token longer than the width, and every boundary between two chunks falls
\* at whitespace, so that no word is split.
C8_BreaksOnlyAtWhitespace ==
    Chunked
        => LET s == Normalize(content)
               starts == Place(s, chunks, 1)
           IN /\ \A k \in 1..Len(chunks) :
                    \/ Len(chunks[k]) <= width
                    \/ \A n \in 1..Len(chunks[k]) : chunks[k][n] # " "
              /\ \A k \in 1..(Len(chunks) - 1) : AtWhitespace(s, starts, k)

\* C8 amended: every chunk has between 1 and width characters, a token
\* longer than the width being cut; a boundary between two chunks falls at
\* whitespace, or next to a hyphen, or inside a token longer than the width.
C8_ChunksFitWidth ==
    Chunked
        => LET s == Normalize(content)
               starts == Place(s, chunks, 1)
           IN /\ \A k \in 1..Len(chunks) :
                    Len(chunks[k]) >= 1 /\ Len(chunks[k]) <= width
              /\ \A k \in 1..(Len(chunks) - 1) :
                    \/ AtWhitespace(s, starts, k)
                    \/ AtHyphen(s, starts, k)
                    \/ InLongToken(s, starts, k)

\* a word of the text cut in two because it is longer than the width
C8_Witness ==
    /\ Chunked
    /\ width = 3
    /\ content = <<"a", "b", "a", "b">>
    /\ chunks = << <<"a", "b", "a">>, <<"b">> >>

=============================================================================
